---- MODULE Spec2Model ----
(***************************************************************************)
(* Model of krita_stable_diffusion/connect.py: the socket server           *)
(* (StableDiffusionRequestQueueWorker) and the socket client               *)
(* (SimpleEnqueueSocketClient), each with its worker threads, checked      *)
(* against an arbitrary TCP peer.                                          *)
(*                                                                         *)
(* Granularity: one action per run of code between two blocking calls      *)
(* (socket accept / recv / connect, queue get, sleep, join, the backend    *)
(* call).  A thread's position is its pc; "done" is a thread that left its *)
(* target function, "crashed" one that an uncaught exception ended.        *)
(***************************************************************************)
EXTENDS Integers, Sequences, FiniteSets, TLC

\* ------------------------------------------------------------- bounds
MaxReq == 2        \* messages the peer sends to the server
MaxOpt == 2        \* distinct options mappings a request may carry
MaxSubmit == 2     \* messages the application submits to the client
MaxIn == 1         \* unread messages of the server on the client's connection
MaxRetry == 1      \* calls of retry_messages() by the application
MaxPending == 1    \* items in res_queue beyond which close() is not called again

\* ------------------------------------------------------------- values
\* A queue item or wire message: bytes holding a JSON document (with or
\* without a "type" key), bytes that are no JSON, or a str.
NoKey == "-"
ReqBytes(t, o) == [kind |-> "bytes", body |-> "json", type |-> t, options |-> o]
NoTypeBytes == [kind |-> "bytes", body |-> "json", type |-> NoKey, options |-> 1]
GarbageBytes == [kind |-> "bytes", body |-> "raw", type |-> NoKey, options |-> 0]
QuitStr == [kind |-> "str", body |-> "quit", type |-> NoKey, options |-> 0]

Options == 1..MaxOpt
RequestTypes == {"txt2img", "img2img", "inpaint"}
WellFormed == {ReqBytes(t, o) : t \in {"txt2img", "img2img"}, o \in Options}
PeerMessages ==
    {ReqBytes(t, o) : t \in RequestTypes, o \in Options} \cup {NoTypeBytes, GarbageBytes}

\* What the backend capability hands back: None, b'', non-empty bytes, or a
\* JSON-serialisable list of paths; or it raises.
ResNone == "None"
ResEmptyBytes == "b''"
ResBytes == "b'png'"
ResPaths == "paths"
Results == {ResNone, ResEmptyBytes, ResBytes, ResPaths}
BackendOutcomes == Results \cup {"raise"}
Sentinel == "quit"

\* A parser that reads any bytes as a document and supplies a missing type.
json_loads_lenient(data) ==
    IF data.kind # "bytes" THEN [err |-> "AttributeError", type |-> NoKey, options |-> 0]
    ELSE [err |-> "",
          type |-> IF data.type = NoKey THEN "txt2img" ELSE data.type,
          options |-> data.options]

\* json.loads(data.decode("utf-8")): the document, or the exception raised.
\* A str has no decode (AttributeError); raw bytes are no JSON (ValueError).
json_loads(data) ==
    IF data.kind # "bytes" THEN [err |-> "AttributeError", type |-> NoKey, options |-> 0]
    ELSE IF data.body # "json" THEN [err |-> "ValueError", type |-> NoKey, options |-> 0]
    ELSE [err |-> "", type |-> data.type, options |-> data.options]

\* json.dumps({"response": response}).encode("utf-8"): bytes are not JSON
\* serialisable (TypeError); anything else becomes the wire text.
json_dumps_response(response) ==
    IF response \in {ResEmptyBytes, ResBytes} THEN "TypeError"
    ELSE "{response: " \o response \o "}"

\* ---------------------------------------------------------- variables
VARIABLES
    \* server endpoint
    s_ctor,            \* SocketServer.__init__ has run past quit_event = Event()
    s_pid_alive,       \* the monitored host process is in the process table
    s_quit,            \* quit_event.is_set()
    s_has,             \* has_connection
    s_soc,             \* the listening socket: "init" | "bound" | "listening" | "closed"
    s_conn,            \* soc_connection: "None" | "open"
    s_peer,            \* "absent" | "pending" | "accepted" | "reset" | "closed"
    s_net,             \* bytes the peer has sent and the server has not read
    s_nsent,           \* how many messages the peer has sent (bounded)
    s_queue,           \* self.queue, the inbound queue
    s_resq,            \* self.response_queue
    s_wire,            \* what the response sender has written to the peer
    s_pc,              \* position of each server thread
    s_job,             \* the request the worker has handed to the backend
    s_calls,           \* history: backend calls made, in order
    s_taken,           \* history: items the sender took from the response queue
    s_ioq,             \* history: socket I/O issued while quit_event was set
    s_last,            \* history: the outcome of the inbound worker's last step
    s_deq,             \* history: the messages the inbound worker dequeued, in order
    \* client endpoint
    c_app,             \* the Application kwarg is an object (FALSE: it is None)
    c_quit,            \* quit_event.is_set()
    c_has,             \* has_connection
    c_soc,             \* self.soc: "fresh" | "connected" | "peergone" | "shut" | "closed"
    c_open,            \* sockets the client has created and not closed
    c_srv,             \* the server is listening
    c_inbox,           \* unread messages of the server on the connection
    c_queue,           \* self.queue: what the application submitted
    c_resq,            \* self.res_queue
    c_failed,          \* self._failed_messages
    c_wire,            \* history: what sendall has written, in order
    c_pc,              \* position of each client thread
    c_rs,              \* the socket a connect thread reads: "cur" | "old" | "eof"
    c_api,             \* the application thread: "idle" | "retry" | "join" | "stopped"
    c_ri,              \* retry_messages: the list iterator's index
    c_nsub,            \* messages submitted
    c_nretry,          \* calls of retry_messages()
    c_nbp,             \* history: how often callback() ran into BrokenPipeError
    c_threads          \* Connection.threads, the list the client's class holds

svars == <<s_ctor, s_pid_alive, s_quit, s_has, s_soc, s_conn, s_peer, s_net, s_nsent,
           s_queue, s_resq, s_wire, s_pc, s_job, s_calls, s_taken, s_ioq, s_last,
           s_deq>>

cvars == <<c_app, c_quit, c_has, c_soc, c_open, c_srv, c_inbox, c_queue, c_resq, c_failed,
           c_wire, c_pc, c_rs, c_api, c_ri, c_nsub, c_nretry, c_nbp, c_threads>>

vars == <<svars, cvars>>

SThreads == {"acc", "wrk", "snd", "wd"}
NoJob == [type |-> NoKey, options |-> 0]

\* The state when Connection.__init__ has started the connection thread: the
\* response queue worker runs already (StableDiffusionRequestQueueWorker.__init__),
\* the inbound worker and the watchdog are started by SocketServer.__init__ later.
SInit ==
    /\ s_ctor = FALSE
    /\ s_pid_alive = TRUE
    /\ s_quit = FALSE
    /\ s_has = FALSE
    /\ s_soc = "init"
    /\ s_conn = "None"
    /\ s_peer = "absent"
    /\ s_net = <<>>
    /\ s_nsent = 0
    /\ s_queue = <<>>
    /\ s_resq = <<>>
    /\ s_wire = <<>>
    /\ s_pc = [t \in SThreads |->
                 CASE t = "acc" -> "start"
                   [] t = "snd" -> "get"
                   [] OTHER -> "notstarted"]
    /\ s_job = NoJob
    /\ s_calls = <<>>
    /\ s_taken = <<>>
    /\ s_ioq = FALSE
    /\ s_last = "none"
    /\ s_deq = <<>>


\* ------------------------------------------------------ server helpers
SPc(t, p) == [s_pc EXCEPT ![t] = p]

\* The accept thread is blocked in recv on the accepted socket.
AccInRecv == s_pc["acc"] = "recv"

\* SocketConnection.disconnect, as seen by the peer: closing the accepted socket
\* ends the connection, except that a read another thread is blocked in keeps
\* the kernel socket until that read returns.
PeerAfterClose == IF s_conn = "open" /\ ~AccInRecv THEN "absent" ELSE s_peer
NetAfterClose == IF s_conn = "open" /\ ~AccInRecv THEN <<>> ELSE s_net

\* SocketServer.handle_open_socket, lines 388-395: the quit check that ends the
\* loop, then stop(): disconnect() and the joins.
AccAfterLoop(conn, peer, net, soc) ==
    IF s_quit
    THEN /\ s_pc' = SPc("acc", "join")
         /\ s_conn' = "None"
         /\ s_soc' = "closed"
         /\ s_peer' = (IF conn = "open" \/ peer = "pending" THEN "absent" ELSE peer)
         /\ s_net' = (IF conn = "open" \/ peer = "pending" THEN <<>> ELSE net)
    ELSE /\ s_pc' = SPc("acc", "top")
         /\ s_conn' = conn
         /\ s_soc' = soc
         /\ s_peer' = peer
         /\ s_net' = net

\* ------------------------------------------------------ server actions
\* SocketServer.__init__ after super().__init__(): the inbound queue is replaced,
\* quit_event is created, the worker and the watchdog threads are started.
SocketServer_init ==
    /\ ~s_ctor
    /\ s_ctor' = TRUE
    /\ s_queue' = <<>>
    /\ s_pc' = [s_pc EXCEPT !["wrk"] = "top", !["wd"] = "poll"]
    /\ UNCHANGED <<cvars, s_pid_alive, s_quit, s_has, s_soc, s_conn, s_peer, s_net, s_nsent,
                   s_resq, s_wire, s_job, s_calls, s_taken, s_ioq, s_last, s_deq>>

\* SocketConnection.connect: open_socket() binds, handle_open_socket() listens.
open_socket ==
    /\ s_pc["acc"] = "start"
    /\ s_soc' = "listening"
    /\ s_conn' = "None"
    /\ s_pc' = SPc("acc", "top")
    /\ UNCHANGED <<cvars, s_ctor, s_pid_alive, s_quit, s_has, s_peer, s_net, s_nsent, s_queue,
                   s_resq, s_wire, s_job, s_calls, s_taken, s_ioq, s_last, s_deq>>

\* handle_open_socket, the top of one loop iteration up to its blocking call.
handle_open_socket_top ==
    /\ s_pc["acc"] = "top"
    /\ IF ~s_has
       THEN IF ~s_ctor
            THEN \* quit_event is still None: line 363 raises inside the try, line 388
                 \* raises outside it
                 /\ s_pc' = SPc("acc", "crashed")
                 /\ UNCHANGED <<s_conn, s_soc, s_peer, s_net, s_ioq>>
            ELSE IF ~s_quit
            THEN /\ s_pc' = SPc("acc", "accept")
                 /\ UNCHANGED <<s_conn, s_soc, s_peer, s_net, s_ioq>>
            ELSE /\ AccAfterLoop(s_conn, s_peer, s_net, s_soc)
                 /\ UNCHANGED s_ioq
       ELSE IF s_conn = "None"
            THEN \* recv on None: AttributeError, passed over
                 /\ AccAfterLoop(s_conn, s_peer, s_net, s_soc)
                 /\ UNCHANGED s_ioq
            ELSE /\ s_pc' = SPc("acc", "recv")
                 /\ s_ioq' = (s_ioq \/ s_quit)
                 /\ UNCHANGED <<s_conn, s_soc, s_peer, s_net>>
    /\ UNCHANGED <<cvars, s_ctor, s_pid_alive, s_quit, s_has, s_nsent, s_queue, s_resq, s_wire,
                   s_job, s_calls, s_taken, s_last, s_deq>>

\* soc.accept() returns a connection: has_connection is set and the same
\* iteration goes on to recv.
handle_open_socket_accepted ==
    /\ s_pc["acc"] = "accept"
    /\ s_soc = "listening" /\ s_peer = "pending"
    /\ s_conn' = "open"
    /\ s_peer' = "accepted"
    /\ s_has' = TRUE
    /\ s_pc' = SPc("acc", "recv")
    /\ s_ioq' = (s_ioq \/ s_quit)
    /\ UNCHANGED <<cvars, s_ctor, s_pid_alive, s_quit, s_soc, s_net, s_nsent, s_queue, s_resq,
                   s_wire, s_job, s_calls, s_taken, s_last, s_deq>>

\* soc.accept() raises: socket.timeout after 1s without a peer, or an OSError on a
\* socket that is not listening.
handle_open_socket_timeout ==
    /\ s_pc["acc"] = "accept"
    /\ ~(s_soc = "listening" /\ s_peer = "pending")
    /\ AccAfterLoop(s_conn, s_peer, s_net, s_soc)
    /\ UNCHANGED <<cvars, s_ctor, s_pid_alive, s_quit, s_has, s_nsent, s_queue, s_resq, s_wire,
                   s_job, s_calls, s_taken, s_ioq, s_last, s_deq>>

\* SimpleEnqueueSocketServer.message setter.
message_put(msg) == Append(s_queue, msg)

\* soc_connection.recv(1024) returns bytes of the peer: pushed to the queue.
handle_open_socket_recv ==
    /\ s_pc["acc"] = "recv"
    /\ s_peer \in {"accepted", "closed"} /\ s_net # <<>>
    /\ s_queue' = message_put(Head(s_net))
    /\ AccAfterLoop(s_conn, IF s_conn = "open" THEN s_peer ELSE "absent",
                    IF s_conn = "open" THEN Tail(s_net) ELSE <<>>, s_soc)
    /\ UNCHANGED <<cvars, s_ctor, s_pid_alive, s_quit, s_has, s_nsent, s_resq, s_wire, s_job,
                   s_calls, s_taken, s_ioq, s_last, s_deq>>

\* A receive loop that takes b'' for the end of the connection and goes back
\* to accepting.
handle_open_socket_empty_eof ==
    /\ s_pc["acc"] = "recv"
    /\ s_peer = "closed" /\ s_net = <<>>
    /\ s_has' = FALSE
    /\ AccAfterLoop("None", "absent", s_net, s_soc)
    /\ UNCHANGED <<cvars, s_ctor, s_pid_alive, s_quit, s_nsent, s_queue, s_resq, s_wire,
                   s_job, s_calls, s_taken, s_ioq, s_last, s_deq>>

\* recv returns b'' (the peer closed): treated as no data.
handle_open_socket_empty ==
    /\ s_pc["acc"] = "recv"
    /\ s_peer = "closed" /\ s_net = <<>>
    /\ AccAfterLoop(s_conn, IF s_conn = "open" THEN s_peer ELSE "absent", s_net, s_soc)
    /\ UNCHANGED <<cvars, s_ctor, s_pid_alive, s_quit, s_has, s_nsent, s_queue, s_resq, s_wire,
                   s_job, s_calls, s_taken, s_ioq, s_last, s_deq>>

\* SocketServer.reset_connection: disconnect(), initialize_socket(),
\* has_connection = False, open_socket() (bind; listen() is not called again).
reset_connection ==
    /\ s_pc["acc"] = "recv"
    /\ s_peer = "reset"
    /\ s_has' = FALSE
    /\ AccAfterLoop("None", "absent", <<>>, "bound")
    /\ UNCHANGED <<cvars, s_ctor, s_pid_alive, s_quit, s_nsent, s_queue, s_resq, s_wire, s_job,
                   s_calls, s_taken, s_ioq, s_last, s_deq>>

\* The accepted socket was closed by another thread during the read.  Where the
\* platform aborts the read, recv raises an OSError that is neither
\* AttributeError nor ConnectionResetError: nothing catches it.  (Where it does
\* not, the read stays blocked until the peer acts.)
handle_open_socket_aborted ==
    /\ s_pc["acc"] = "recv"
    /\ s_conn = "None"
    /\ s_pc' = SPc("acc", "crashed")
    /\ s_peer' = "absent"
    /\ s_net' = <<>>
    /\ UNCHANGED <<cvars, s_ctor, s_pid_alive, s_quit, s_has, s_soc, s_conn, s_nsent, s_queue,
                   s_resq, s_wire, s_job, s_calls, s_taken, s_ioq, s_last, s_deq>>

\* Connection.stop: the joins; the thread's own join raises RuntimeError, caught.
stop_join ==
    /\ s_pc["acc"] = "join"
    /\ \A t \in SThreads \ {"acc"} : s_pc[t] \in {"done", "crashed"}
    /\ s_pc' = SPc("acc", "done")
    /\ UNCHANGED <<cvars, s_ctor, s_pid_alive, s_quit, s_has, s_soc, s_conn, s_peer, s_net,
                   s_nsent, s_queue, s_resq, s_wire, s_job, s_calls, s_taken, s_ioq, s_last, s_deq>>

\* A watchdog that sets quit_event and wakes the sender only.
try_quit_no_sentinel ==
    /\ s_quit' = TRUE
    /\ s_resq' = Append(s_resq, Sentinel)
    /\ s_conn' = "None"
    /\ s_peer' = PeerAfterClose
    /\ s_net' = NetAfterClose
    /\ s_queue' = s_queue

\* SocketServer.try_quit, the process is absent.
try_quit ==
    /\ s_quit' = TRUE
    /\ s_resq' = Append(s_resq, Sentinel)
    /\ s_conn' = "None"
    /\ s_peer' = PeerAfterClose
    /\ s_net' = NetAfterClose
    /\ s_queue' = Append(s_queue, QuitStr)

\* A watchdog that shuts down at its first poll, whatever the process table says.
watch_connection_eager ==
    /\ s_pc["wd"] = "poll"
    /\ try_quit
    /\ s_pc' = SPc("wd", "done")
    /\ UNCHANGED <<cvars, s_ctor, s_pid_alive, s_has, s_soc, s_nsent, s_wire, s_job, s_calls,
                   s_taken, s_ioq, s_last, s_deq>>

\* SocketServer.watch_connection: one poll.
watch_connection ==
    /\ s_pc["wd"] = "poll"
    /\ IF s_pid_alive
       THEN UNCHANGED <<s_quit, s_resq, s_conn, s_peer, s_net, s_queue, s_pc>>
       ELSE /\ try_quit
            /\ s_pc' = SPc("wd", "done")
    /\ UNCHANGED <<cvars, s_ctor, s_pid_alive, s_has, s_soc, s_nsent, s_wire, s_job, s_calls,
                   s_taken, s_ioq, s_last, s_deq>>

\* SimpleEnqueueSocketServer.worker, line 886: the quit check after the callback.
WrkAfter == IF s_quit THEN "done" ELSE "top"

\* SimpleEnqueueSocketServer.worker, lines 876-880: the loop up to queue.get().
worker_top ==
    /\ s_pc["wrk"] = "top"
    /\ s_pc' = SPc("wrk", IF s_has THEN "get" ELSE WrkAfter)
    /\ UNCHANGED <<cvars, s_ctor, s_pid_alive, s_quit, s_has, s_soc, s_conn, s_peer, s_net,
                   s_nsent, s_queue, s_resq, s_wire, s_job, s_calls, s_taken, s_ioq, s_last, s_deq>>

\* The capability StableDiffusionRequestQueueWorker.callback calls for a parsed
\* request: "" when the type matches neither branch.
callback_capability(data) ==
    IF data.type = "txt2img" THEN "txt2img_sample"
    ELSE IF data.type = "img2img" THEN "img2img_sample"
    ELSE ""

\* What callback passes to the capability.
callback_call(data) == [cap |-> callback_capability(data), options |-> data.options]

\* A worker that hands the job over and goes back to its loop.
worker_calling_async == "top"

\* callback, lines 908-910: the capability is called on the worker thread, which
\* stays in the call until it returns.
worker_calling == "backend"

\* queue.get() returns; callback parses the message and, for txt2img / img2img,
\* calls the backend.  Every exception of callback is caught by worker.
worker ==
    /\ s_pc["wrk"] = "get"
    /\ s_queue # <<>>
    /\ s_queue' = Tail(s_queue)
    /\ s_deq' = Append(s_deq, Head(s_queue))
    /\ LET data == json_loads(Head(s_queue)) IN
       IF data.err # "" \/ data.type = NoKey
       THEN /\ s_last' = "error"
            /\ s_pc' = SPc("wrk", WrkAfter)
            /\ UNCHANGED <<s_job, s_calls>>
       ELSE IF callback_capability(data) # ""
       THEN /\ s_job' = [type |-> data.type, options |-> data.options]
            /\ s_calls' = Append(s_calls, callback_call(data))
            /\ s_pc' = SPc("wrk", worker_calling)
            /\ s_last' = "call"
       ELSE /\ s_last' = ResNone
            /\ s_pc' = SPc("wrk", WrkAfter)
            /\ UNCHANGED <<s_job, s_calls>>
    /\ UNCHANGED <<cvars, s_ctor, s_pid_alive, s_quit, s_has, s_soc, s_conn, s_peer, s_net,
                   s_nsent, s_resq, s_wire, s_taken, s_ioq>>

\* A test that lets every result but None through.
callback_has_response_not_none(response) == response # ResNone

\* callback, line 911: the test that decides whether a result is enqueued.
callback_has_response(response) == response # ResNone /\ response # ResEmptyBytes

\* The backend call returns (or raises); callback enqueues a non-empty result.
callback ==
    /\ s_pc["wrk"] = "backend"
    /\ \E out \in BackendOutcomes :
         /\ s_last' = out
         /\ s_resq' = (IF out # "raise" /\ callback_has_response(out)
                       THEN Append(s_resq, out) ELSE s_resq)
    /\ s_job' = NoJob
    /\ s_pc' = SPc("wrk", WrkAfter)
    /\ UNCHANGED <<cvars, s_ctor, s_pid_alive, s_quit, s_has, s_soc, s_conn, s_peer, s_net,
                   s_nsent, s_queue, s_wire, s_calls, s_taken, s_ioq, s_deq>>

\* response_queue_worker, lines 927-930: sendall on soc_connection.  None has no
\* sendall (AttributeError); a peer that is gone may or may not fail the write;
\* every exception is caught and the response is dropped.
SendOutcomes ==
    IF s_conn = "None" THEN {"dropped"}
    ELSE IF s_peer = "accepted" THEN {"sent"}
    ELSE {"sent", "dropped"}

\* StableDiffusionRequestQueueWorker.response_queue_worker: one iteration.
response_queue_worker ==
    /\ s_pc["snd"] = "get"
    /\ s_resq # <<>>
    /\ s_resq' = Tail(s_resq)
    /\ LET response == Head(s_resq)
           res == json_dumps_response(response) IN
       IF response = Sentinel
       THEN /\ s_pc' = SPc("snd", "done")
            /\ UNCHANGED <<s_taken, s_wire, s_ioq>>
       ELSE /\ s_taken' = Append(s_taken, response)
            /\ IF res = "TypeError"
               THEN \* json.dumps is outside the try
                    /\ s_pc' = SPc("snd", "crashed")
                    /\ UNCHANGED <<s_wire, s_ioq>>
               ELSE /\ \E o \in SendOutcomes :
                         s_wire' = (IF o = "sent" THEN Append(s_wire, res) ELSE s_wire)
                    /\ s_ioq' = (s_ioq \/ (s_quit /\ s_conn # "None"))
                    /\ s_pc' = SPc("snd", IF s_quit THEN "done" ELSE "get")
    /\ UNCHANGED <<cvars, s_ctor, s_pid_alive, s_quit, s_has, s_soc, s_conn, s_peer, s_net,
                   s_nsent, s_queue, s_job, s_calls, s_last, s_deq>>

\* ------------------------------------------------- server environment
\* A peer connects to the listening socket (backlog of one).
PeerConnect ==
    /\ s_peer = "absent" /\ s_soc = "listening"
    /\ s_peer' = "pending"
    /\ UNCHANGED <<cvars, s_ctor, s_pid_alive, s_quit, s_has, s_soc, s_conn, s_net, s_nsent,
                   s_queue, s_resq, s_wire, s_pc, s_job, s_calls, s_taken, s_ioq, s_last, s_deq>>

\* The peer writes one message.
PeerSend ==
    /\ s_peer \in {"pending", "accepted"} /\ s_nsent < MaxReq
    /\ \E m \in PeerMessages : s_net' = Append(s_net, m)
    /\ s_nsent' = s_nsent + 1
    /\ UNCHANGED <<cvars, s_ctor, s_pid_alive, s_quit, s_has, s_soc, s_conn, s_peer, s_queue,
                   s_resq, s_wire, s_pc, s_job, s_calls, s_taken, s_ioq, s_last, s_deq>>

\* The peer resets the connection.
PeerReset ==
    /\ s_peer = "accepted"
    /\ s_peer' = "reset"
    /\ s_net' = <<>>
    /\ UNCHANGED <<cvars, s_ctor, s_pid_alive, s_quit, s_has, s_soc, s_conn, s_nsent, s_queue,
                   s_resq, s_wire, s_pc, s_job, s_calls, s_taken, s_ioq, s_last, s_deq>>

\* The peer closes its end.
PeerClose ==
    /\ s_peer = "accepted"
    /\ s_peer' = "closed"
    /\ UNCHANGED <<cvars, s_ctor, s_pid_alive, s_quit, s_has, s_soc, s_conn, s_net, s_nsent,
                   s_queue, s_resq, s_wire, s_pc, s_job, s_calls, s_taken, s_ioq, s_last, s_deq>>

\* The host process exits.
HostExit ==
    /\ s_pid_alive
    /\ s_pid_alive' = FALSE
    /\ UNCHANGED <<cvars, s_ctor, s_quit, s_has, s_soc, s_conn, s_peer, s_net, s_nsent, s_queue,
                   s_resq, s_wire, s_pc, s_job, s_calls, s_taken, s_ioq, s_last, s_deq>>

ServerThreadStep ==
    \/ SocketServer_init
    \/ open_socket
    \/ handle_open_socket_top
    \/ handle_open_socket_accepted
    \/ handle_open_socket_timeout
    \/ handle_open_socket_recv
    \/ handle_open_socket_empty
    \/ reset_connection
    \/ handle_open_socket_aborted
    \/ stop_join
    \/ watch_connection
    \/ worker_top
    \/ worker
    \/ callback
    \/ response_queue_worker

ServerEnvStep == PeerConnect \/ PeerSend \/ PeerReset \/ PeerClose \/ HostExit

ServerNext == ServerThreadStep \/ ServerEnvStep

\* ============================================================== client
CThreads == {"cA", "cB", "cW", "cR"}
ConnectThreads == {"cA", "cB"}

\* What the application submits: a JSON-serialisable mapping, or bytes (what
\* Controller.request_prompt assigns).  Ids follow the order of submission.
Msg(i, ty) == [id |-> i, ty |-> ty]
MsgTypes == {"dict", "bytes"}
QuitMsg == Msg(0, "quit")

\* What the constructor of client instance inst appends to Connection.threads,
\* in the order of the start_thread calls.
Registered(inst) ==
    <<[inst |-> inst, name |-> "cA"], [inst |-> inst, name |-> "cW"],
      [inst |-> inst, name |-> "cB"], [inst |-> inst, name |-> "cR"]>>

\* The state when SimpleEnqueueSocketClient.__init__ returns: Connection.__init__
\* started one thread on connect(), SocketClient.__init__ the worker and a second
\* thread on connect(), SimpleEnqueueSocketClient.__init__ the response worker.
CInit ==
    /\ c_app \in BOOLEAN
    /\ c_quit = FALSE
    /\ c_has = FALSE
    /\ c_soc = "fresh"
    /\ c_open = 1
    /\ c_srv = FALSE
    /\ c_inbox = 0
    /\ c_queue = <<>>
    /\ c_resq = <<>>
    /\ c_failed = <<>>
    /\ c_wire = <<>>
    /\ c_pc = [t \in CThreads |-> IF t = "cR" THEN "get" ELSE "top"]
    /\ c_rs = [t \in ConnectThreads |-> "cur"]
    /\ c_api = "idle"
    /\ c_ri = 0
    /\ c_nsub = 0
    /\ c_nretry = 0
    /\ c_nbp = 0
    /\ c_threads = Registered("A")

CPc(t, p) == [c_pc EXCEPT ![t] = p]

IsOpen(soc) == soc # "closed"

\* A socket is replaced or closed while connect threads are blocked in recv on
\* it: their read is on the old socket from then on.
ReadersOf(how) ==
    [t \in ConnectThreads |-> IF c_pc[t] = "recv" /\ c_rs[t] = "cur" THEN how ELSE c_rs[t]]

\* SocketConnection.disconnect then initialize_socket: the socket is closed and
\* a new one takes its place.
OpenAfterReplace == IF IsOpen(c_soc) THEN c_open ELSE c_open + 1

\* SocketClient.connect, lines 638-660: the quit checks, then the read or the
\* sleep.
ConnectAfter(t, has) ==
    IF c_quit THEN "done"
    ELSE IF has THEN "recv"
    ELSE "top"

\* SocketClient.connect, lines 625-626: a client without a connection resets it
\* (reset_connection: disconnect, initialize_socket, has_connection = False).
connect_top(t) ==
    /\ c_pc[t] \in {"top", "demoted"}
    /\ IF ~c_has
       THEN /\ c_soc' = "fresh"
            /\ c_open' = OpenAfterReplace
            /\ c_inbox' = 0
            /\ c_rs' = ReadersOf("old")
            /\ c_pc' = CPc(t, "connect")
       ELSE /\ c_pc' = CPc(t, ConnectAfter(t, TRUE))
            /\ c_rs' = [c_rs EXCEPT ![t] = "cur"]
            /\ UNCHANGED <<c_soc, c_open, c_inbox>>
    /\ UNCHANGED <<c_app, c_quit, c_has, c_srv, c_queue, c_resq, c_failed, c_wire, c_api,
                   c_ri, c_nsub, c_nretry, c_nbp>>
    /\ UNCHANGED <<svars, c_threads>>

\* soc.connect((host, port)) succeeds on a socket that is not connected yet when
\* the server listens; otherwise it raises.
connect_succeeds == c_soc = "fresh" /\ c_srv

\* SocketClient.connect, lines 630-636: after a successful connect
\* has_connection is set, then setattr(self.Application, ...) raises when
\* Application is None and the handler clears has_connection again.
connect_marks(ok) == ok /\ c_app

\* soc.connect, line 629, returns or raises in the kernel's time: the thread
\* goes on at line 630, or in the handler, once it holds the interpreter
\* again, and other threads may run before that.
connect(t) ==
    /\ c_pc[t] = "connect"
    /\ c_soc' = (IF connect_succeeds THEN "connected" ELSE c_soc)
    /\ c_pc' = CPc(t, IF connect_succeeds THEN "connected" ELSE "refused")
    /\ UNCHANGED <<c_app, c_quit, c_has, c_open, c_srv, c_inbox, c_queue, c_resq, c_failed,
                   c_wire, c_rs, c_api, c_ri, c_nsub, c_nretry, c_nbp>>
    /\ UNCHANGED <<svars, c_threads>>

\* SocketClient.connect, lines 630-660: has_connection is written, then the
\* quit checks.
connect_mark(t) ==
    /\ c_pc[t] \in {"connected", "refused"}
    /\ c_has' = connect_marks(c_pc[t] = "connected")
    /\ c_pc' = CPc(t, ConnectAfter(t, c_has'))
    /\ c_rs' = [c_rs EXCEPT ![t] = "cur"]
    /\ UNCHANGED <<c_app, c_quit, c_soc, c_open, c_srv, c_inbox, c_queue, c_resq, c_failed,
                   c_wire, c_api, c_ri, c_nsub, c_nretry, c_nbp>>
    /\ UNCHANGED <<svars, c_threads>>

\* soc.recv(1024) returns: a message of the server, or b'' when the server
\* closed or the socket was shut down.  With quit_event set the loop ends;
\* otherwise the response goes to the handle_response callable of the
\* application, which returns or raises (has_connection = False).
connect_recv(t) ==
    /\ c_pc[t] = "recv"
    /\ \/ c_rs[t] = "cur" /\ c_soc = "connected" /\ c_inbox > 0
       \/ c_rs[t] = "cur" /\ c_soc \in {"peergone", "shut"}
       \/ c_rs[t] = "eof"
    /\ c_inbox' = (IF c_rs[t] = "cur" /\ c_soc = "connected" THEN c_inbox - 1 ELSE c_inbox)
    /\ IF c_quit
       THEN /\ c_pc' = CPc(t, "done")
            /\ UNCHANGED c_has
       ELSE \E raised \in BOOLEAN :
              /\ c_has' = (IF raised THEN FALSE ELSE c_has)
              /\ c_pc' = CPc(t, ConnectAfter(t, FALSE))
    /\ c_rs' = [c_rs EXCEPT ![t] = "cur"]
    /\ UNCHANGED <<c_app, c_quit, c_soc, c_open, c_srv, c_queue, c_resq, c_failed, c_wire,
                   c_api, c_ri, c_nsub, c_nretry, c_nbp>>
    /\ UNCHANGED <<svars, c_threads>>

\* soc.recv raises: the socket is not connected, was closed, or (where the
\* platform aborts a read on a socket another thread closed) was replaced under
\* the read.  The handler clears has_connection; without quit_event the thread
\* is back at the top of its loop, demoted by its own read.
connect_recv_error(t) ==
    /\ c_pc[t] = "recv"
    /\ \/ c_rs[t] = "cur" /\ c_soc \in {"fresh", "closed"}
       \/ c_rs[t] = "old"
    /\ c_has' = FALSE
    /\ c_pc' = CPc(t, IF c_quit THEN "done" ELSE "demoted")
    /\ c_rs' = [c_rs EXCEPT ![t] = "cur"]
    /\ UNCHANGED <<c_app, c_quit, c_soc, c_open, c_srv, c_inbox, c_queue, c_resq, c_failed,
                   c_wire, c_api, c_ri, c_nsub, c_nretry, c_nbp>>
    /\ UNCHANGED <<svars, c_threads>>

\* json.dumps(message): bytes are not JSON serialisable.
json_dumps(message) == IF message.ty = "bytes" THEN "TypeError" ELSE "json"

\* How soc.sendall can end on the socket as it is: written; BrokenPipeError
\* (EPIPE: shut down, or not connected on Linux, or the peer is gone); another
\* OSError (closed socket, ENOTCONN, ECONNRESET).
sendall_outcomes(soc) ==
    CASE soc = "connected" -> {"sent"}
      [] soc = "peergone" -> {"sent", "BrokenPipeError", "OSError"}
      [] soc = "fresh" -> {"BrokenPipeError", "OSError"}
      [] soc = "shut" -> {"BrokenPipeError"}
      [] OTHER -> {"OSError"}

\* SimpleEnqueueSocketClient.callback: how it can end for this message.
callback_outcomes(message) ==
    IF json_dumps(message) = "TypeError" THEN {"TypeError"} ELSE sendall_outcomes(c_soc)

\* A handler that puts the failed message at the front of the list.
callback_failed_front(failed, message) == <<message>> \o failed

\* callback, lines 763-769: what the BrokenPipeError handler leaves in
\* _failed_messages and has_connection.
callback_failed(failed, message) == Append(failed, message)
callback_has == FALSE

\* SimpleEnqueueSocketClient.callback(message) ending with outcome o, on the
\* failed-message list as the caller left it.
client_callback(message, o, failed) ==
    /\ c_nbp' = (IF o = "BrokenPipeError" THEN c_nbp + 1 ELSE c_nbp)
    /\ c_wire' = (IF o = "sent" THEN Append(c_wire, message) ELSE c_wire)
    /\ IF o = "BrokenPipeError"
       THEN /\ c_failed' = callback_failed(failed, message)
            /\ c_has' = callback_has
            /\ c_soc' = "fresh"
            /\ c_open' = OpenAfterReplace
            /\ c_inbox' = 0
            /\ c_rs' = ReadersOf("old")
       ELSE /\ c_failed' = failed
            /\ UNCHANGED <<c_has, c_soc, c_open, c_inbox, c_rs>>

\* SimpleEnqueueSocketClient.worker: one iteration of the loop.
client_worker ==
    /\ c_pc["cW"] = "top"
    /\ IF c_quit
       THEN /\ c_pc' = CPc("cW", "done")
            /\ UNCHANGED <<c_quit, c_queue, c_nbp, c_wire, c_failed, c_has, c_soc, c_open,
                           c_inbox, c_rs>>
       ELSE IF c_queue = <<>>
       THEN UNCHANGED <<c_pc, c_quit, c_queue, c_nbp, c_wire, c_failed, c_has, c_soc,
                        c_open, c_inbox, c_rs>>
       ELSE IF Head(c_queue) = QuitMsg
       THEN /\ c_quit' = TRUE
            /\ c_queue' = Tail(c_queue)
            /\ c_pc' = CPc("cW", "done")
            /\ UNCHANGED <<c_nbp, c_wire, c_failed, c_has, c_soc, c_open, c_inbox, c_rs>>
       ELSE /\ c_queue' = Tail(c_queue)
            /\ \E o \in callback_outcomes(Head(c_queue)) :
                  client_callback(Head(c_queue), o, c_failed)
            /\ UNCHANGED <<c_pc, c_quit>>
    /\ UNCHANGED <<c_app, c_srv, c_resq, c_api, c_ri, c_nsub, c_nretry>>
    /\ UNCHANGED <<svars, c_threads>>

\* SimpleEnqueueSocketClient.response_worker: res_queue.get() returns the
\* sentinel.
response_worker ==
    /\ c_pc["cR"] = "get"
    /\ c_resq # <<>>
    /\ c_resq' = Tail(c_resq)
    /\ c_pc' = CPc("cR", "done")
    /\ UNCHANGED <<c_app, c_quit, c_has, c_soc, c_open, c_srv, c_inbox, c_queue, c_failed,
                   c_wire, c_rs, c_api, c_ri, c_nsub, c_nretry, c_nbp>>
    /\ UNCHANGED <<svars, c_threads>>

\* ------------------------------------------------- client application
\* SimpleEnqueueSocketClient.message setter: the application submits a message.
message_set ==
    /\ c_api = "idle"
    /\ c_nsub < MaxSubmit
    /\ c_nsub' = c_nsub + 1
    /\ \E ty \in MsgTypes : c_queue' = Append(c_queue, Msg(c_nsub + 1, ty))
    /\ UNCHANGED <<c_app, c_quit, c_has, c_soc, c_open, c_srv, c_inbox, c_resq, c_failed,
                   c_wire, c_pc, c_rs, c_api, c_ri, c_nretry, c_nbp>>
    /\ UNCHANGED <<svars, c_threads>>

\* SimpleEnqueueSocketClient.quit.
quit ==
    /\ c_api = "idle"
    /\ ~c_quit
    /\ c_quit' = TRUE
    /\ c_resq' = Append(c_resq, Sentinel)
    /\ c_queue' = Append(c_queue, QuitMsg)
    /\ UNCHANGED <<c_app, c_has, c_soc, c_open, c_srv, c_inbox, c_failed, c_wire, c_pc,
                   c_rs, c_api, c_ri, c_nsub, c_nretry, c_nbp>>
    /\ UNCHANGED <<svars, c_threads>>

\* soc.shutdown(SHUT_RDWR) raises on a socket that is not connected or is closed.
shutdown_raises == c_soc \in {"fresh", "closed"}

\* SocketClient.close: the sentinel, shutdown, has_connection = False,
\* quit_event.set(), then stop(): disconnect() and the joins.  When shutdown
\* raises, close() ends there.
close ==
    /\ c_api = "idle"
    /\ ~c_quit
    /\ Len(c_resq) < MaxPending
    /\ c_resq' = Append(c_resq, Sentinel)
    /\ IF shutdown_raises
       THEN UNCHANGED <<c_has, c_quit, c_soc, c_open, c_rs, c_api>>
       ELSE /\ c_has' = FALSE
            /\ c_quit' = TRUE
            /\ c_soc' = "closed"
            /\ c_open' = c_open - 1
            /\ c_rs' = ReadersOf("eof")
            /\ c_api' = "join"
    /\ UNCHANGED <<c_app, c_srv, c_inbox, c_queue, c_failed, c_wire, c_pc, c_ri, c_nsub,
                   c_nretry, c_nbp>>
    /\ UNCHANGED <<svars, c_threads>>

\* A stop() that also clears quit_event.
stop_clearing_quit ==
    /\ c_api = "idle"
    /\ c_soc' = "closed"
    /\ c_open' = (IF IsOpen(c_soc) THEN c_open - 1 ELSE c_open)
    /\ c_rs' = ReadersOf("old")
    /\ c_api' = "join"
    /\ c_quit' = FALSE
    /\ UNCHANGED <<c_app, c_has, c_srv, c_inbox, c_queue, c_resq, c_failed, c_wire,
                   c_pc, c_ri, c_nsub, c_nretry, c_nbp>>
    /\ UNCHANGED <<svars, c_threads>>

\* Connection.stop, called by the application: disconnect() closes the socket
\* (has_connection and quit_event are left alone), then the joins.
stop ==
    /\ c_api = "idle"
    /\ c_soc' = "closed"
    /\ c_open' = (IF IsOpen(c_soc) THEN c_open - 1 ELSE c_open)
    /\ c_rs' = ReadersOf("old")
    /\ c_api' = "join"
    /\ UNCHANGED <<c_app, c_quit, c_has, c_srv, c_inbox, c_queue, c_resq, c_failed, c_wire,
                   c_pc, c_ri, c_nsub, c_nretry, c_nbp>>
    /\ UNCHANGED <<svars, c_threads>>

\* thread.join() on a handle of the list returns: the thread has ended.  The
\* threads of another instance are those of a client that is in use.
Joined(h) == h.inst = "A" /\ c_pc[h.name] \in {"done", "crashed"}

\* Connection.stop: the joins return when every thread of the list has ended.
client_stop_join ==
    /\ c_api = "join"
    /\ \A k \in 1..Len(c_threads) : Joined(c_threads[k])
    /\ c_api' = "stopped"
    /\ UNCHANGED <<c_app, c_quit, c_has, c_soc, c_open, c_srv, c_inbox, c_queue, c_resq,
                   c_failed, c_wire, c_pc, c_rs, c_ri, c_nsub, c_nretry, c_nbp>>
    /\ UNCHANGED <<svars, c_threads>>

\* list.remove(message): the first equal element goes.
RECURSIVE list_remove(_, _)
list_remove(list, message) ==
    IF list = <<>> THEN <<>>
    ELSE IF Head(list) = message THEN Tail(list)
    ELSE <<Head(list)>> \o list_remove(Tail(list), message)

\* The application calls retry_messages().
retry_messages_call ==
    /\ c_api = "idle"
    /\ c_nretry < MaxRetry
    /\ c_failed # <<>>
    /\ c_nretry' = c_nretry + 1
    /\ c_ri' = 0
    /\ c_api' = "retry"
    /\ UNCHANGED <<c_app, c_quit, c_has, c_soc, c_open, c_srv, c_inbox, c_queue, c_resq,
                   c_failed, c_wire, c_pc, c_rs, c_nsub, c_nbp>>
    /\ UNCHANGED <<svars, c_threads>>

\* SimpleEnqueueSocketClient.retry_messages: one iteration of the for loop over
\* _failed_messages itself (failed_messages is the same list): the iterator
\* yields the element at its index, the element is removed, callback runs.
retry_messages ==
    /\ c_api = "retry"
    /\ IF c_ri < Len(c_failed)
       THEN /\ c_ri' = c_ri + 1
            /\ \E o \in callback_outcomes(c_failed[c_ri + 1]) :
                  client_callback(c_failed[c_ri + 1], o,
                                  list_remove(c_failed, c_failed[c_ri + 1]))
            /\ UNCHANGED c_api
       ELSE /\ c_api' = "idle"
            /\ UNCHANGED <<c_ri, c_nbp, c_wire, c_failed, c_has, c_soc, c_open, c_inbox, c_rs>>
    /\ UNCHANGED <<c_app, c_quit, c_srv, c_queue, c_resq, c_pc, c_nsub, c_nretry>>
    /\ UNCHANGED <<svars, c_threads>>

\* The application constructs a second client: start_thread appends its
\* threads to self.threads, the list of the class.
OtherClient_init ==
    /\ \A k \in 1..Len(c_threads) : c_threads[k].inst = "A"
    /\ c_threads' = c_threads \o Registered("B")
    /\ UNCHANGED <<c_app, c_quit, c_has, c_soc, c_open, c_srv, c_inbox, c_queue, c_resq,
                   c_failed, c_wire, c_pc, c_rs, c_api, c_ri, c_nsub, c_nretry, c_nbp>>
    /\ UNCHANGED svars

\* ------------------------------------------------- client environment
ServerListens ==
    /\ ~c_srv
    /\ c_srv' = TRUE
    /\ UNCHANGED <<c_app, c_quit, c_has, c_soc, c_open, c_inbox, c_queue, c_resq, c_failed,
                   c_wire, c_pc, c_rs, c_api, c_ri, c_nsub, c_nretry, c_nbp>>
    /\ UNCHANGED <<svars, c_threads>>

ServerSends ==
    /\ c_soc = "connected" /\ c_inbox < MaxIn
    /\ c_inbox' = c_inbox + 1
    /\ UNCHANGED <<c_app, c_quit, c_has, c_soc, c_open, c_srv, c_queue, c_resq, c_failed,
                   c_wire, c_pc, c_rs, c_api, c_ri, c_nsub, c_nretry, c_nbp>>
    /\ UNCHANGED <<svars, c_threads>>

ServerCloses ==
    /\ c_soc = "connected"
    /\ c_soc' = "peergone"
    /\ UNCHANGED <<c_app, c_quit, c_has, c_open, c_srv, c_inbox, c_queue, c_resq, c_failed,
                   c_wire, c_pc, c_rs, c_api, c_ri, c_nsub, c_nretry, c_nbp>>
    /\ UNCHANGED <<svars, c_threads>>

ClientThreadStep ==
    \/ \E t \in ConnectThreads :
          \/ connect_top(t)
          \/ connect(t)
          \/ connect_mark(t)
          \/ connect_recv(t)
          \/ connect_recv_error(t)
    \/ client_worker
    \/ response_worker

ClientApiStep ==
    \/ message_set
    \/ quit
    \/ close
    \/ stop
    \/ client_stop_join
    \/ OtherClient_init
    \/ retry_messages_call
    \/ retry_messages

ClientEnvStep == ServerListens \/ ServerSends \/ ServerCloses

ClientNext == ClientThreadStep \/ ClientApiStep \/ ClientEnvStep


Init == SInit /\ CInit

SpecS == Init /\ [][ServerNext]_vars

\* Every server thread that can take a step eventually takes one.  The aborted
\* read is an outcome only some platforms produce, the peer and the host process
\* owe nothing: none of them is under fairness.
AccStep ==
    \/ open_socket
    \/ handle_open_socket_top
    \/ handle_open_socket_accepted
    \/ handle_open_socket_timeout
    \/ handle_open_socket_recv
    \/ handle_open_socket_empty
    \/ reset_connection
    \/ stop_join
WrkStep == worker_top \/ worker \/ callback

FairSpecS ==
    /\ SpecS
    /\ WF_vars(SocketServer_init)
    /\ WF_vars(AccStep)
    /\ WF_vars(WrkStep)
    /\ WF_vars(response_queue_worker)
    /\ WF_vars(watch_connection)

SpecC == Init /\ [][ClientNext]_vars

\* The scheduler runs every thread that can take a step, and a call the
\* application has made runs on; the application is under no obligation to
\* make a call, nor the server to send or to close.
FairSpecC ==
    /\ SpecC
    /\ \A t \in ConnectThreads :
          WF_vars(connect_top(t) \/ connect(t) \/ connect_mark(t) \/ connect_recv(t))
    /\ WF_vars(client_worker)
    /\ WF_vars(response_worker)
    /\ WF_vars(retry_messages)
    /\ WF_vars(client_stop_join)

\* Either endpoint under study: the server and the client are instances in
\* different processes and share no state, so the one runs while the other is
\* as constructed.
EndpointNext == (CInit /\ ServerNext) \/ (SInit /\ ClientNext)

SpecE == Init /\ [][EndpointNext]_vars

\* ------------------------------------------------------------- claims
SThreadsEnded == \A t \in SThreads : s_pc[t] \in {"done", "crashed"}

\* C1: once quit_event is set on the server, every thread registered for the
\* instance eventually terminates, whatever the peer does.
C1_ShutdownCompleteness == s_quit ~> SThreadsEnded

\* C2: when the watchdog finds the process absent it sets quit_event, puts the
\* sentinel on both queues and closes the accepted connection, and no server
\* thread issues socket I/O once quit_event is set.
C2_WatchdogTermination ==
    [][/\ (~s_quit /\ s_quit') =>
            /\ s_resq' = Append(s_resq, Sentinel)
            /\ s_queue' = Append(s_queue, QuitStr)
            /\ s_conn' = "None"
       /\ ~s_ioq']_vars

\* The capability and the argument the dispatcher owes a well-formed request.
ExpectedCall(m) ==
    [cap |-> IF m.type = "txt2img" THEN "txt2img_sample" ELSE "img2img_sample",
     options |-> m.options]

WorkerTakes == s_pc["wrk"] = "get" /\ s_pc'["wrk"] # "get"
BackendReturns == s_pc["wrk"] = "backend" /\ s_pc'["wrk"] # "backend"

\* C4: a well-formed txt2img / img2img request taken from the inbound queue
\* makes exactly one call, of the matching capability with the request's
\* options; the response queue gains the result when it is non-empty and
\* nothing when it is None or b''.
C4_Dispatch ==
    [][/\ (WorkerTakes /\ Head(s_queue) \in WellFormed) =>
            /\ s_calls' = Append(s_calls, ExpectedCall(Head(s_queue)))
            /\ s_pc'["wrk"] = "backend"
            /\ s_resq' = s_resq
       /\ BackendReturns =>
            /\ s_calls' = s_calls
            /\ s_last' \in {ResBytes, ResPaths} => s_resq' = Append(s_resq, s_last')
            /\ s_last' \in {ResNone, ResEmptyBytes} => s_resq' = s_resq]_vars

C4_Witness ==
    /\ s_calls = <<[cap |-> "img2img_sample", options |-> 2]>>
    /\ s_last = ResPaths
    /\ s_resq = <<ResPaths>>

Malformed == {GarbageBytes, NoTypeBytes}

\* The calls owed to the well-formed requests among the messages dequeued.
RECURSIVE CallsOwed(_)
CallsOwed(q) ==
    IF q = <<>> THEN <<>>
    ELSE IF Head(q) \in WellFormed THEN <<ExpectedCall(Head(q))>> \o CallsOwed(Tail(q))
    ELSE CallsOwed(Tail(q))

\* C8: a message that is no JSON, or JSON without a type, changes neither the
\* response queue nor the accepted connection nor has_connection, makes no
\* backend call and leaves the inbound worker in its loop; the well-formed
\* requests dequeued, before or after it, are all dispatched.
C8_MalformedInput ==
    [][/\ (WorkerTakes /\ Head(s_queue) \in Malformed) =>
            /\ s_resq' = s_resq
            /\ s_conn' = s_conn
            /\ s_has' = s_has
            /\ s_calls' = s_calls
            /\ s_pc'["wrk"] = (IF s_quit THEN "done" ELSE "top")
       /\ s_calls' = CallsOwed(s_deq')]_vars

C8_Witness ==
    /\ Len(s_deq) = 2
    /\ s_deq[1] = GarbageBytes
    /\ s_deq[2] \in WellFormed
    /\ Len(s_calls) = 1
    /\ s_conn = "open"
    /\ s_wire # <<>>

SenderTakes ==
    /\ s_pc["snd"] = "get"
    /\ s_resq # <<>>
    /\ Head(s_resq) # Sentinel
    /\ s_taken' # s_taken

ResponseEnvelope(response) == "{response: " \o response \o "}"

\* C9: with the peer connected and quit_event unset, each non-empty result on
\* the response queue is written to the accepted connection as
\* {"response": result}, once, in queue order.
C9_EndToEnd ==
    [][(SenderTakes /\ ~s_quit /\ s_conn = "open" /\ s_peer = "accepted") =>
            s_wire' = Append(s_wire, ResponseEnvelope(Head(s_resq)))]_vars

\* The sender reaches sendall only with a response json.dumps accepted.
SendAttempted == json_dumps_response(Head(s_resq)) # "TypeError"

\* C10: an item taken from the response queue is sent at most once and never
\* put back; when no connection is accepted, or the send fails, it is dropped
\* and the sender thread keeps running.
C10_NoRetry ==
    [][SenderTakes =>
            /\ s_resq' = Tail(s_resq)
            /\ s_wire' \in {s_wire, Append(s_wire, ResponseEnvelope(Head(s_resq)))}
            /\ s_conn = "None" => s_wire' = s_wire
            /\ (~s_quit /\ (s_conn = "None" \/ (SendAttempted /\ s_wire' = s_wire)))
                   => s_pc'["snd"] = "get"]_vars

\* ------------------------------------------------------ client claims
Connected == c_has /\ c_soc = "connected"
ConnectReturns(t) == c_pc[t] = "connected" /\ c_pc'[t] # "connected"

\* C3: every connect() of the client that reached the server leaves exactly
\* one active connection: has_connection is set and the one open socket of the
\* client is connected.
C3_ReconnectIdempotence ==
    [][\A t \in ConnectThreads : ConnectReturns(t) => (Connected' /\ c_open' = 1)]_vars

Submitted == 1..MaxSubmit
InFailed(i) == \E k \in 1..Len(c_failed) : c_failed[k].id = i
OnWire(i) == \E k \in 1..Len(c_wire) : c_wire[k].id = i

\* C5: a message whose send failed with BrokenPipeError is written to the wire
\* once the client is connected again, unless the client quits or loses the
\* connection first.
C5_AtLeastOnce ==
    \A i \in Submitted :
        (InFailed(i) /\ Connected /\ ~c_quit) ~> (OnWire(i) \/ c_quit \/ ~Connected)

Written == c_wire' # c_wire
LastWritten == c_wire'[Len(c_wire')]

\* C6: no message is written to the wire while a message submitted before it
\* waits in _failed_messages.
C6_RetryOrdering ==
    [][Written => \A k \in 1..Len(c_failed') : c_failed'[k].id >= LastWritten.id]_vars

BrokenPipe == c_nbp' = c_nbp + 1
WorkerSends == c_queue' # c_queue
RetrySends == c_ri' # c_ri

\* C7: when sendall raises BrokenPipeError, the handler appends the message at
\* the end of _failed_messages and leaves the entries before it alone, clears
\* has_connection, closes the socket and installs a new unconnected one, and
\* the worker thread goes on.
C7_BrokenPipeHandler ==
    [][BrokenPipe =>
          /\ WorkerSends => /\ c_failed' = Append(c_failed, Head(c_queue))
                            /\ c_pc'["cW"] = "top"
          /\ RetrySends =>
                c_failed' = Append(list_remove(c_failed, c_failed[c_ri']), c_failed[c_ri'])
          /\ ~c_has'
          /\ c_soc' = "fresh"
          /\ c_open' = 1
          /\ c_pc' = c_pc]_vars

C7_Witness ==
    /\ c_nbp = 2
    /\ Len(c_failed) = 2 /\ c_failed[1].id = 1 /\ c_failed[2].id = 2
    /\ ~c_has /\ c_soc = "fresh" /\ c_open = 1
    /\ c_pc["cW"] = "top"

\* ------------------------------------------------ claims C11 .. C20
IsPrefix(s, t) == Len(s) <= Len(t) /\ SubSeq(t, 1, Len(s)) = s
JobInFlight == s_job # NoJob

\* C11: the backend is called by the inbound worker thread only and only when
\* no job is in flight; while a job is in flight nothing is taken from the
\* inbound queue, requests that arrive are appended behind what waits there.
C11_OneJobInFlight ==
    [][/\ s_calls' # s_calls =>
            /\ ~JobInFlight
            /\ s_pc["wrk"] = "get" /\ s_pc'["wrk"] = "backend"
            /\ Len(s_calls') = Len(s_calls) + 1
       /\ JobInFlight => (s_pc["wrk"] = "backend" /\ IsPrefix(s_queue, s_queue'))]_vars

C11_Witness ==
    /\ JobInFlight
    /\ s_queue # <<>> /\ Head(s_queue) \in WellFormed
    /\ Len(s_calls) = 1

\* C12: stop() always returns: once the application is in the joins of stop(),
\* the joins end.
C12_StopReturns == (c_api = "join") ~> (c_api = "stopped")

\* C15: the list stop() joins holds only threads the instance started itself.
C15_RegistryPerInstance == \A k \in 1..Len(c_threads) : c_threads[k].inst = "A"

\* C13: quit_event, once set on an endpoint, stays set through every step of
\* that endpoint.
C13_QuitMonotonic == [][(s_quit => s_quit') /\ (c_quit => c_quit')]_vars

C13_Witness ==
    \/ c_quit /\ c_api = "stopped"
    \/ s_quit /\ s_pc["acc"] = "done"

AcceptCalled == s_pc["acc"] # "accept" /\ s_pc'["acc"] = "accept"
Accepted == s_conn # "open" /\ s_conn' = "open"
NewlyConnected == c_soc # "connected" /\ c_soc' = "connected"

\* C14: the server calls accept() and installs an accepted socket only while
\* has_connection is false and it holds no accepted socket; a client thread that
\* connects a socket, or sets has_connection after its connect, finds
\* has_connection false; the client never has more than one open socket.
C14_ConnectedFromDisconnected ==
    [][/\ AcceptCalled => (~s_has /\ s_conn = "None")
       /\ Accepted => (~s_has /\ s_has')
       /\ NewlyConnected => ~c_has
       /\ \A t \in ConnectThreads : (ConnectReturns(t) /\ c_has') => ~c_has
       /\ c_open' <= 1]_vars

\* close() is the one call that puts the sentinel on res_queue and nothing on
\* the outbound queue.
CloseCalled == c_resq' = Append(c_resq, Sentinel) /\ c_queue' = c_queue

\* C16: every call of close() puts the sentinel on the response queue, sets
\* quit_event and goes on to stop().
C16_CloseShutsDown == [][CloseCalled => (c_quit' /\ c_api' = "join")]_vars

\* The accept thread's recv raised ConnectionResetError and reset_connection() ran.
ResetHandled == s_pc["acc"] = "recv" /\ s_peer = "reset" /\ s_pc'["acc"] # "recv"

\* C17: after a peer reset, reset_connection() leaves the server in Listening:
\* no accepted socket, has_connection false, and a new socket that is bound and
\* listening, so that a later client can be accepted.
C17_ResetToListening ==
    [][(ResetHandled /\ ~s_quit) =>
           (s_soc' = "listening" /\ s_conn' = "None" /\ ~s_has')]_vars

\* The watchdog's poll that finds the host process absent.
WatchdogFires == ~s_quit /\ s_quit'

\* A thread blocked in get() on an empty queue.
SenderBlocked == s_pc["snd"] = "get" /\ s_resq = <<>>
WorkerBlocked == s_pc["wrk"] = "get" /\ s_queue = <<>>

\* The next item a thread's get() returns is the sentinel.
SenderReleased == s_pc["snd"] = "get" /\ s_resq # <<>> /\ Head(s_resq) = Sentinel
WorkerReleased ==
    s_quit /\ s_pc["wrk"] = "get" /\ s_queue # <<>> /\ Head(s_queue) = QuitStr

\* C18: when the watchdog finds the host process absent, the sender and the
\* inbound worker blocked on their queues are handed the sentinel; the thread
\* that dequeues it terminates without a backend call and without a write to
\* the socket, and it does dequeue it.
C18_QueueReadersReleased ==
    /\ [][WatchdogFires => /\ SenderBlocked => SenderReleased'
                           /\ WorkerBlocked => WorkerReleased']_vars
    /\ [][(SenderReleased /\ s_pc'["snd"] # "get") =>
              (s_pc'["snd"] = "done" /\ s_wire' = s_wire /\ s_taken' = s_taken)]_vars
    /\ [][(WorkerReleased /\ s_pc'["wrk"] # "get") =>
              (s_pc'["wrk"] = "done" /\ s_calls' = s_calls /\ s_job' = NoJob)]_vars
    /\ SenderReleased ~> (s_pc["snd"] = "done")
    /\ WorkerReleased ~> (s_pc["wrk"] = "done")

\* Both readers were blocked on empty queues, took nothing but the sentinel and
\* ended.
C18_Witness ==
    /\ s_quit /\ s_pc["snd"] = "done" /\ s_pc["wrk"] = "done"
    /\ s_deq = <<QuitStr>> /\ s_taken = <<>> /\ s_calls = <<>> /\ s_wire = <<>>

\* The loop of server thread t has ended: by a break or by an exception.
LoopLeft(t) == s_pc[t] \in {"join", "done", "crashed"}

\* C19: no server thread leaves its loop while quit_event is unset (the
\* sentinel is only delivered by the watchdog, which sets quit_event first).
C19_ExitOnlyOnQuit == \A t \in SThreads : LoopLeft(t) => s_quit

\* The message the current iteration of retry_messages took from the list.
Retried == c_failed[c_ri']

\* C20: retry_messages() takes a message off _failed_messages only when its
\* send has succeeded: after each iteration the message has been written or is
\* still in the list.
C20_RemoveAfterSend ==
    [][RetrySends => \/ Written /\ LastWritten = Retried
                     \/ \E k \in 1..Len(c_failed') : c_failed'[k] = Retried]_vars

\* ------------------------------------------------------ claims C21 .. C29
\* Connect thread t resets the socket and calls soc.connect.
ConnectAttempted(t) == c_pc[t] \in {"top", "demoted"} /\ c_pc'[t] = "connect"

\* The read of connect thread t returns or raises.
ReadEnds(t) == c_pc[t] = "recv" /\ c_pc'[t] # "recv"

\* C21: once quit_event is set a connect thread makes no connect attempt (no
\* reset followed by connect), and a read that ends after quit_event was set
\* ends the loop without a call of the response handler.
C21_QuitCheckedBeforeConnect ==
    [][\A t \in ConnectThreads :
          /\ ConnectAttempted(t) => ~c_quit
          /\ (ReadEnds(t) /\ c_quit) => c_pc'[t] = "done"]_vars

\* C22: when soc.connect has succeeded and quit_event is not set, the connect
\* attempt ends with has_connection true and the thread goes on to the read on
\* that socket, whether or not an Application object was supplied.
C22_ConnectSuccessMarks ==
    [][\A t \in ConnectThreads :
          (ConnectReturns(t) /\ ~c_quit) => (c_has' /\ c_pc'[t] = "recv")]_vars

\* The read of connect thread t raises: the socket is not connected, closed, or
\* was replaced under the read.
ReadRaises(t) ==
    /\ ReadEnds(t)
    /\ \/ c_rs[t] = "old"
       \/ c_rs[t] = "cur" /\ c_soc \in {"fresh", "closed"}

\* C23: a read error clears has_connection, leaves quit_event as it is and ends
\* no thread; the next iteration of that connect thread resets the socket and
\* connects again; a failed connect is followed by another iteration as long as
\* quit_event is not set.
C23_ReadErrorReconnects ==
    [][\A t \in ConnectThreads :
          /\ ReadRaises(t) =>
                /\ ~c_has' /\ c_quit' = c_quit
                /\ \A u \in CThreads \ {t} : c_pc'[u] = c_pc[u]
                /\ ~c_quit => c_pc'[t] = "demoted"
          /\ (c_pc[t] = "demoted" /\ c_pc'[t] # "demoted") =>
                (c_pc'[t] = "connect" /\ c_soc' = "fresh")
          /\ (c_pc[t] = "refused" /\ c_pc'[t] # "refused" /\ ~c_quit) =>
                c_pc'[t] = "top"]_vars

\* The server's recv returns bytes of the peer.
ServerRead == s_pc["acc"] = "recv" /\ s_net # <<>> /\ s_pc'["acc"] \notin {"recv", "crashed"}

\* An item leaves the server's inbound queue.
ServerDequeued == Len(s_queue') < Len(s_queue)

\* The read of connect thread t returns a message of the server and quit_event
\* is not set.
ClientRead(t) == ReadEnds(t) /\ c_inbox' < c_inbox /\ ~c_quit

\* C24: on either endpoint a message the receive loop read is put on the
\* endpoint's queue, and only the worker takes it from there, from the head,
\* and hands it to the callback.
C24_InboundPath ==
    [][/\ ServerRead => s_queue' = Append(s_queue, Head(s_net))
       /\ ServerDequeued => /\ s_pc["wrk"] = "get" /\ s_pc'["wrk"] # "get"
                            /\ s_queue' = Tail(s_queue)
                            /\ s_deq' = Append(s_deq, Head(s_queue))
       /\ \A t \in ConnectThreads :
             ClientRead(t) => \/ Len(c_resq') = Len(c_resq) + 1
                              \/ Len(c_queue') = Len(c_queue) + 1]_vars

\* A step of a server thread other than the accept thread; of the client's
\* outbound worker and response worker.
ServerReaderStep == \E t \in SThreads \ {"acc"} : s_pc'[t] # s_pc[t]
ClientReaderStep ==
    \/ Len(c_queue') < Len(c_queue)
    \/ c_pc'["cW"] # c_pc["cW"]
    \/ c_pc'["cR"] # c_pc["cR"]

\* The client's socket handle is closed or replaced.
HandleWritten == c_soc' # c_soc /\ c_soc' \in {"fresh", "closed"}

\* C25: the watchdog, the workers and the response sender only read the socket
\* handle and has_connection of their endpoint: no step of theirs changes the
\* accepted socket, the listening socket or the flag of the server, nor the
\* socket or the flag of the client.
C25_SingleWriter ==
    [][/\ ServerReaderStep => (s_conn' = s_conn /\ s_soc' = s_soc /\ s_has' = s_has)
       /\ ClientReaderStep => (~HandleWritten /\ c_has' = c_has)]_vars

\* The server's recv returns b''.
EmptyRead ==
    /\ s_pc["acc"] = "recv" /\ s_peer = "closed" /\ s_net = <<>>
    /\ s_pc'["acc"] \notin {"recv", "crashed"}

\* C26: an empty read without quit_event puts nothing on the inbound queue and
\* leaves has_connection, the accepted socket and the listening socket as they
\* are; a loop iteration that starts with has_connection set does not call
\* accept().
C26_EmptyReadIsNoData ==
    [][/\ (EmptyRead /\ ~s_quit) =>
             /\ s_queue' = s_queue
             /\ s_has /\ s_has'
             /\ s_conn' = s_conn /\ s_soc' = s_soc
             /\ s_pc'["acc"] = "top"
       /\ (s_pc["acc"] = "top" /\ s_has) => s_pc'["acc"] # "accept"]_vars

\* The peer closed without having sent anything and the accept thread is back
\* at the top of its loop: its only read returned b''.
C26_Witness ==
    /\ s_pc["acc"] = "top" /\ s_peer = "closed" /\ s_nsent = 0
    /\ s_has /\ s_conn = "open" /\ ~s_quit

\* The outbound worker takes a message (not the sentinel) from the queue and
\* callback runs on it.
OutboundTaken == c_queue # <<>> /\ c_queue' = Tail(c_queue) /\ Head(c_queue) # QuitMsg

\* C27: when callback returns, the message the outbound worker took has been
\* written to the socket or is in _failed_messages.
C27_NoSilentLoss ==
    [][OutboundTaken =>
          \/ Written /\ LastWritten = Head(c_queue)
          \/ \E k \in 1..Len(c_failed') : c_failed'[k] = Head(c_queue)]_vars

\* Thread t is inside a connect attempt: between reset_connection() and the
\* write of has_connection that follows soc.connect.
InConnectAttempt(t) == c_pc[t] \in {"connect", "connected", "refused"}

\* C28: no two threads of the client are inside a connect attempt on the
\* shared socket at the same time.
C28_OneConnectLoop ==
    \A t, u \in ConnectThreads : (InConnectAttempt(t) /\ InConnectAttempt(u)) => t = u

\* "quit" is put on the response queue or on the inbound queue.
SentinelPut ==
    \/ Len(s_resq') > Len(s_resq) /\ s_resq'[Len(s_resq')] = Sentinel
    \/ Len(s_queue') > Len(s_queue) /\ s_queue'[Len(s_queue')] = QuitStr

\* The accepted connection is closed.
ConnectionClosed == s_conn = "open" /\ s_conn' # "open"

\* C29: while the host process is present no step sets quit_event or puts a
\* sentinel on a queue, and the accepted connection is closed by the accept
\* thread only; quit_event is set by a poll of the watchdog that found the
\* process absent, and by nothing else.
C29_NoSpuriousShutdown ==
    [][/\ s_pid_alive => /\ s_quit' = s_quit
                         /\ ~SentinelPut
                         /\ ConnectionClosed => s_pc'["acc"] # s_pc["acc"]
       /\ WatchdogFires => (~s_pid_alive /\ s_pc["wd"] = "poll" /\ s_pc'["wd"] = "done")]_vars

\* The watchdog has shut the server down after the host process went away,
\* with a client accepted.
C29_Witness == s_quit /\ ~s_pid_alive /\ s_pc["wd"] = "done" /\ s_has /\ s_conn = "None"
====
